---- MODULE Spec2Model ----
(***************************************************************************)
(* Document-ingestion and question-answering backend.                      *)
(*                                                                         *)
(* server.js is the robust variant (upload, ask with scoring, startup      *)
(* backfill of the bucket); unnamed/part_002 (and part_001, which differs  *)
(* only in its messages) is the simple variant (upload only, as far as     *)
(* ingestion goes).                                                        *)
(*                                                                         *)
(* A JavaScript string is a sequence of one-character strings, so that     *)
(* tokenizing, joining, truncating and regular-expression matching are     *)
(* computed character by character.                                        *)
(***************************************************************************)
EXTENDS Integers, Sequences, FiniteSets, TLC

(***************************************************************************)
(* Bounds of the model.  The three caps stand for the caps of the source   *)
(* (20000 characters of stored text, 2000 / 200 tokens); they are kept     *)
(* small so that texts longer than the cap and token lists longer than the *)
(* cap are among the inputs.                                               *)
(***************************************************************************)
TextCap == 8            \* substring(0, 20000): server.js:101, part_002:87
TokenCapServer == 3     \* slice(0, 2000): server.js:33
TokenCapSimple == 2     \* slice(0, 200): part_002:39
MaxClock == 1           \* Date.now() takes the values 0..MaxClock
MaxUploads == 2         \* POST /upload requests in flight at once
MaxRecords == 2         \* rows of knowledge_base
MaxBlobs == 4           \* objects of the bucket
MaxStarts == 2          \* server starts
MaxCandidates == 3      \* rows the Record Store returns to one /ask

SNIPPET_MAX == 8000     \* server.js:171

(***************************************************************************)
(* Characters.                                                             *)
(***************************************************************************)
LowerChars == <<"a","b","c","d","e","f","g","h","i","j","k","l","m",
                "n","o","p","q","r","s","t","u","v","w","x","y","z">>
UpperChars == <<"A","B","C","D","E","F","G","H","I","J","K","L","M",
                "N","O","P","Q","R","S","T","U","V","W","X","Y","Z">>
DigitChars == <<"0","1","2","3","4","5","6","7","8","9">>

Range(s) == {s[i] : i \in DOMAIN s}

Min(a, b) == IF a < b THEN a ELSE b
Max(a, b) == IF a > b THEN a ELSE b

\* String.prototype.toLowerCase, one character
toLowerChar(c) ==
  IF \E i \in DOMAIN UpperChars : UpperChars[i] = c
  THEN LowerChars[CHOOSE i \in DOMAIN UpperChars : UpperChars[i] = c]
  ELSE c

toLowerCase(s) == [i \in 1..Len(s) |-> toLowerChar(s[i])]

\* the class [a-z0-9]
IsAZ09(c) == c \in Range(LowerChars) \cup Range(DigitChars)

\* the class \s
IsSpace(c) == c \in {" ", "\t", "\n"}

\* the class \w, which decides where \b holds
IsWordChar(c) == c \in Range(LowerChars) \cup Range(UpperChars) \cup Range(DigitChars) \cup {"_"}

\* s.replace(/[^a-z0-9\s]/g, ' ')
ReplaceNonAlnum(s) == [i \in 1..Len(s) |-> IF IsAZ09(s[i]) \/ IsSpace(s[i]) THEN s[i] ELSE " "]

\* s.split(/\s+/): the pieces between the maximal runs of white space; a
\* string that starts (ends) with white space has an empty first (last) piece
RECURSIVE SplitFrom(_, _, _, _)
SplitFrom(s, i, cur, acc) ==
  IF i > Len(s) THEN Append(acc, cur)
  ELSE IF IsSpace(s[i])
       THEN IF i > 1 /\ IsSpace(s[i-1])
            THEN SplitFrom(s, i + 1, cur, acc)
            ELSE SplitFrom(s, i + 1, <<>>, Append(acc, cur))
       ELSE SplitFrom(s, i + 1, Append(cur, s[i]), acc)

SplitWs(s) == SplitFrom(s, 1, <<>>, <<>>)

\* Array.from(new Set(ws)): a Set keeps the first insertion of each value
RECURSIVE UniqueFrom(_, _, _)
UniqueFrom(ws, i, acc) ==
  IF i > Len(ws) THEN acc
  ELSE IF ws[i] \in Range(acc)
       THEN UniqueFrom(ws, i + 1, acc)
       ELSE UniqueFrom(ws, i + 1, Append(acc, ws[i]))

\* the words as they come, repeated ones kept
UniqueKeepAll(ws) == ws

Unique(ws) == UniqueFrom(ws, 1, <<>>)

\* a.slice(0, n) for an integer n >= 0
Take(s, n) == SubSeq(s, 1, Min(Len(s), Max(n, 0)))

STOPWORDS == {
  <<"t","h","e">>, <<"i","s">>, <<"a","n","d">>, <<"a">>, <<"a","n">>, <<"o","f">>,
  <<"t","o">>, <<"i","n">>, <<"f","o","r">>, <<"o","n">>, <<"b","y">>, <<"w","i","t","h">>,
  <<"t","h","a","t">>, <<"t","h","i","s">>, <<"i","t">>, <<"a","r","e">>, <<"a","s">>,
  <<"b","e">>, <<"o","r">>, <<"f","r","o","m">>, <<"a","t">>, <<"w","h","i","c","h">>,
  <<"w","e">>, <<"y","o","u">>, <<"y","o","u","r">>, <<"o","u","r">>,
  <<"t","h","e","i","r">>, <<"h","a","s">>, <<"h","a","v","e">>, <<"w","a","s">>,
  <<"w","e","r","e">>, <<"b","u","t">>, <<"n","o","t">> }

SIMPLE_STOPWORDS == {
  <<"t","h","e">>, <<"i","s">>, <<"a","n","d">>, <<"a">>, <<"a","n">>, <<"o","f">>,
  <<"t","o">>, <<"i","n">>, <<"f","o","r">>, <<"o","n">>, <<"b","y">>, <<"w","i","t","h">>,
  <<"t","h","a","t">>, <<"t","h","i","s">>, <<"i","t">>, <<"a","r","e">>, <<"a","s">>,
  <<"b","e">>, <<"o","r">>, <<"f","r","o","m">>, <<"a","t">>, <<"w","h","i","c","h">>,
  <<"w","e">>, <<"y","o","u">>, <<"y","o","u","r">>, <<"o","u","r">>,
  <<"t","h","e","i","r">> }

\* server.js simpleTokenize
simpleTokenize(text) ==
  IF text = <<>> THEN <<>>
  ELSE LET raw == ReplaceNonAlnum(toLowerCase(text))
           words == SelectSeq(SplitWs(raw), LAMBDA w : w # <<>>)
       IN Take(Unique(SelectSeq(words, LAMBDA w : w \notin STOPWORDS /\ Len(w) > 2)),
               TokenCapServer)

\* part_002 (and part_001) tokenize
tokenize(text) ==
  IF text = <<>> THEN <<>>
  ELSE LET pieces == SplitWs(ReplaceNonAlnum(toLowerCase(text)))
       IN Take(Unique(SelectSeq(pieces, LAMBDA w : Len(w) > 2 /\ w \notin SIMPLE_STOPWORDS)),
               TokenCapSimple)

\* a.join(sep)
RECURSIVE JoinFrom(_, _, _)
JoinFrom(ws, sep, i) ==
  IF i > Len(ws) THEN <<>>
  ELSE IF i = Len(ws) THEN ws[i]
  ELSE ws[i] \o sep \o JoinFrom(ws, sep, i + 1)

Join(ws, sep) == JoinFrom(ws, sep, 1)

(***************************************************************************)
(* State.                                                                  *)
(*   variant  the program deployed: "server" (server.js) or "simple"       *)
(*            (part_002)                                                   *)
(*   now      Date.now()                                                   *)
(*   blobs    the bucket 'documents' of the Blob Store: its objects, in    *)
(*            the order list('') returns them                              *)
(*   db       the table knowledge_base of the Record Store                 *)
(*   uploads  the POST /upload requests in flight: per slot the locals of  *)
(*            its processFile call and the response sent                   *)
(*   bf       processExistingFiles: the listing, the loop index and the    *)
(*            locals of its processFile call                               *)
(*   starts   how often the server was started                             *)
(*   puts     history: the keys ingestions wrote to the bucket, once and   *)
(*            more than once                                               *)
(*   reindexed  history: the backfill inserted a row for a blob that had   *)
(*            one                                                          *)
(*   ask      the POST /ask request being served (server.js), with the     *)
(*            handler's locals and the response it sent                    *)
(***************************************************************************)
VARIABLES variant, now, blobs, db, uploads, bf, starts, puts, reindexed, ask

ingestVars == <<variant, now, blobs, db, uploads, bf, starts, puts, reindexed>>
vars == <<variant, now, blobs, db, uploads, bf, starts, puts, reindexed, ask>>

Slots == 1..MaxUploads

(***************************************************************************)
(* Ingestion: helpers.                                                     *)
(***************************************************************************)
ALLOWED_TYPES ==
  [pdf |-> "application/pdf",
   docx |-> "application/vnd.openxmlformats-officedocument.wordprocessingml.document",
   csv |-> "text/csv",
   txt |-> "text/plain"]

\* s.endsWith(suffix)
EndsWith(s, suffix) ==
  Len(s) >= Len(suffix) /\ SubSeq(s, Len(s) - Len(suffix) + 1, Len(s)) = suffix

\* String(n) of a number n >= 0
RECURSIVE DecimalString(_)
DecimalString(n) ==
  IF n < 10 THEN <<DigitChars[n + 1]>>
  ELSE DecimalString(n \div 10) \o <<DigitChars[(n % 10) + 1]>>

\* filename.replace(/\s+/g, '_')
ReplaceWsRuns(filename) == Join(SplitWs(filename), <<"_">>)

\* `${Date.now()}_${filename.replace(/\s+/g, '_')}`
SafeFilename(t, filename) == DecimalString(t) \o <<"_">> \o ReplaceWsRuns(filename)

\* getPublicUrl of the bucket: the URL of the object at path
PublicUrl(path) == <<"/">> \o path

\* server.js getPublicUrlSafe('documents', path)
getPublicUrlSafe(path) == PublicUrl(path)

\* storage.from('documents').upload(key, bytes, {contentType, upsert: true})
\* on a bucket bs: an object of that name is replaced
Put(bs, key, bytes, contentType) ==
  LET obj == [name |-> key, bytes |-> bytes, content_type |-> contentType]
  IN IF \E i \in DOMAIN bs : bs[i].name = key
     THEN [i \in DOMAIN bs |-> IF bs[i].name = key THEN obj ELSE bs[i]]
     ELSE Append(bs, obj)

HasBlob(bs, key) == \E i \in DOMAIN bs : bs[i].name = key

\* history of the keys written
Written(key) ==
  IF key \in puts.once \cup puts.again
  THEN [once |-> puts.once \ {key}, again |-> puts.again \cup {key}]
  ELSE [once |-> puts.once \cup {key}, again |-> puts.again]

Row(id, text, keywords, source) ==
  [id |-> id, answer_text |-> text, question_keywords |-> keywords, source_document |-> source,
   file_url |-> <<>>, uploaded_by |-> <<>>, lecturer_name |-> <<>>]

NoRow == Row(0, <<>>, <<>>, <<>>)

\* the locals of a processFile call
PfNone ==
  [stage |-> "none", filename |-> <<>>, mimetype |-> "", buffer |-> <<>>,
   uploaded_by |-> <<>>, lecturer_name |-> <<>>, source_document |-> <<>>,
   customKeywords |-> <<>>, safeFilename |-> <<>>, publicUrl |-> <<>>,
   extractedText |-> <<>>, extractFailed |-> FALSE, payload |-> NoRow, result |-> NoRow]

(***************************************************************************)
(* server.js processFile, between its awaits.  Both callers pass a buffer, *)
(* so the branch without one is not modelled.                              *)
(***************************************************************************)
\* the call, up to the await of the upload
PfCall(filename, mimetype, buffer, uploaded_by, lecturer_name, source_document, customKeywords) ==
  [PfNone EXCEPT
     !.stage = "uploading", !.filename = filename, !.mimetype = mimetype, !.buffer = buffer,
     !.uploaded_by = uploaded_by, !.lecturer_name = lecturer_name,
     !.source_document = source_document, !.customKeywords = customKeywords,
     !.safeFilename = SafeFilename(now, filename)]

\* if (uploadError) throw uploadError
PfUploadFailed(pf) == [PfNone EXCEPT !.stage = "threw"]

\* filePath = uploadData.path; publicUrl; up to the await of the parser
PfUploaded(pf) ==
  [pf EXCEPT !.stage = "extracting", !.publicUrl = getPublicUrlSafe(pf.safeFilename)]

\* which branch of step 3 takes the file
FileKind(mimetype, filename) ==
  LET lower == toLowerCase(filename)
  IN IF mimetype = ALLOWED_TYPES.pdf \/ EndsWith(lower, <<".","p","d","f">>) THEN "pdf"
     ELSE IF mimetype = ALLOWED_TYPES.docx \/ EndsWith(lower, <<".","d","o","c","x">>) THEN "docx"
     ELSE IF \/ mimetype = ALLOWED_TYPES.csv
             \/ EndsWith(lower, <<".","c","s","v">>)
             \/ EndsWith(lower, <<".","t","x","t">>)
             \/ mimetype = ALLOWED_TYPES.txt THEN "text"
     ELSE "none"

\* only pdfParse and mammoth can throw
CanThrow(kind) == kind \in {"pdf", "docx"}

\* step 3: the text of the buffer, or '' when the parser threw (the catch)
\* and when no branch takes the file
ExtractText(pf, parsed) ==
  LET kind == FileKind(pf.mimetype, pf.filename)
  IN IF kind = "none" THEN <<>>
     ELSE IF parsed THEN pf.buffer
     ELSE <<>>

\* a payload whose text is not cut
PayloadWhole(pf, extractedText) ==
  [id |-> 0,
   question_keywords |-> Join(simpleTokenize(extractedText \o <<" ">> \o pf.filename \o <<" ">>
                              \o pf.source_document \o <<" ">> \o pf.customKeywords), <<",">>),
   answer_text |-> extractedText,
   file_url |-> pf.publicUrl,
   uploaded_by |-> pf.uploaded_by,
   lecturer_name |-> pf.lecturer_name,
   source_document |-> pf.source_document]

\* steps 4 and 5: the payload
Payload(pf, extractedText) ==
  LET keywordsArr == simpleTokenize(extractedText \o <<" ">> \o pf.filename \o <<" ">>
                                    \o pf.source_document \o <<" ">> \o pf.customKeywords)
  IN [id |-> 0,
      question_keywords |-> Join(keywordsArr, <<",">>),
      answer_text |-> Take(extractedText, TextCap),
      file_url |-> pf.publicUrl,
      uploaded_by |-> pf.uploaded_by,
      lecturer_name |-> pf.lecturer_name,
      source_document |-> pf.source_document]

\* a step 3 without its catch: the parser's throw leaves processFile
PfExtractedRethrows(pf, parsed) ==
  IF parsed
  THEN [pf EXCEPT !.stage = "inserting", !.extractedText = pf.buffer,
                  !.payload = Payload(pf, pf.buffer)]
  ELSE [PfNone EXCEPT !.stage = "threw", !.extractFailed = TRUE]

\* steps 3 to 5, up to the await of the insert; the catch of step 3 goes on
PfExtracted(pf, parsed) ==
  LET extractedText == ExtractText(pf, parsed)
  IN [pf EXCEPT !.stage = "inserting", !.extractedText = extractedText,
                !.extractFailed = ~parsed, !.payload = Payload(pf, extractedText)]

\* step 6: return data?.[0] || null
PfInserted(pf, row) == [PfNone EXCEPT !.stage = "returned", !.result = row]

\* the row insert([payload]).select() stores and returns
Stored(payload) == [payload EXCEPT !.id = Len(db) + 1]

(***************************************************************************)
(* part_002 processFile, between its awaits (part_001 is the same but for  *)
(* its messages).                                                          *)
(***************************************************************************)
SimplePfCall(originalname, mimetype, buffer, lecturer, keywords) ==
  [PfNone EXCEPT
     !.stage = "uploading", !.filename = originalname, !.mimetype = mimetype,
     !.buffer = buffer, !.lecturer_name = lecturer, !.customKeywords = keywords,
     !.safeFilename = SafeFilename(now, originalname)]

SimplePfUploaded(pf) ==
  [pf EXCEPT !.stage = "extracting", !.publicUrl = PublicUrl(pf.safeFilename)]

\* mimetype.includes('word')
IncludesWord(mimetype) == mimetype \in {ALLOWED_TYPES.docx, "application/msword"}

SimpleFileKind(mimetype) ==
  IF mimetype = "application/pdf" THEN "pdf"
  ELSE IF IncludesWord(mimetype) THEN "docx"
  ELSE "text"

SimplePayload(pf, extractedText) ==
  LET keywordList == Join(tokenize(extractedText \o <<" ">> \o pf.filename \o <<" ">>
                                   \o pf.customKeywords), <<",">>)
  IN [id |-> 0,
      question_keywords |-> keywordList,
      answer_text |-> Take(extractedText, TextCap),
      file_url |-> pf.publicUrl,
      uploaded_by |-> <<>>,
      lecturer_name |-> pf.lecturer_name,
      source_document |-> pf.filename]

SimplePfExtracted(pf) ==
  [pf EXCEPT !.stage = "inserting", !.extractedText = pf.buffer,
             !.payload = SimplePayload(pf, pf.buffer)]

(***************************************************************************)
(* Requests and responses of POST /upload.                                 *)
(***************************************************************************)
NoUploadResponse == [status |-> 0, error |-> "", record |-> NoRow]
UploadError(status, msg) == [status |-> status, error |-> msg, record |-> NoRow]
UploadOk(row) == [status |-> 200, error |-> "", record |-> row]

SlotIdle == [state |-> "idle", pf |-> PfNone, res |-> NoUploadResponse]

UploadRequest(hasFile, originalname, mimetype, buffer, lecturer, source_document, keywords) ==
  [hasFile |-> hasFile, originalname |-> originalname, mimetype |-> mimetype, buffer |-> buffer,
   uploaded_by |-> <<>>, lecturer |-> lecturer, source_document |-> source_document,
   keywords |-> keywords]

\* The multipart requests clients send: one without a file; a text longer
\* than the cap, with a repeated word, a stop word and more words than the
\* token cap; a PDF with form fields; a second text whose name gives the key
\* of the first
NoFileRequest == UploadRequest(FALSE, <<>>, "", <<>>, <<>>, <<>>, <<>>)

NotesRequest ==
  UploadRequest(TRUE, <<"m","y"," ","n","o","t","e","s",".","t","x","t">>, "text/plain",
                <<"c","a","t"," ","C","a","t"," ","t","h","e"," ","d","o","g","-","e","l","k"," ","a","n","t">>,
                <<>>, <<>>, <<>>)

PdfRequest ==
  UploadRequest(TRUE, <<"a",".","p","d","f">>, "application/pdf", <<"o","x">>,
                <<"D","r">>, <<"B","i","o"," ","1","0","1">>, <<"g","e","n","e",","," ","D","N","A">>)

OtherNotesRequest ==
  UploadRequest(TRUE, <<"m","y","_","n","o","t","e","s",".","t","x","t">>, "text/plain",
                <<"e","m","u">>, <<>>, <<>>, <<>>)

\* a request takes the first slot that serves none
Free(i) == uploads[i].state # "running" /\ \A j \in 1..(i - 1) : uploads[j].state = "running"

Running(i, stage) == uploads[i].state = "running" /\ uploads[i].pf.stage = stage

\* the bucket takes the object (the model's bound on its size)
CanPut(key) == HasBlob(blobs, key) \/ Len(blobs) < MaxBlobs

\* a row of knowledge_base points at the blob
Indexed(name) == \E k \in DOMAIN db : db[k].file_url = PublicUrl(name)

(***************************************************************************)
(* server.js app.post('/upload').                                          *)
(***************************************************************************)
\* the handler, up to the await of the upload to the bucket
UploadReceive(i, req) ==
  /\ variant = "server"
  /\ Free(i)
  /\ uploads' = [uploads EXCEPT ![i] =
       IF ~req.hasFile
       THEN [state |-> "responded", pf |-> PfNone, res |-> UploadError(400, "No file uploaded")]
       ELSE [state |-> "running",
             pf |-> PfCall(req.originalname, req.mimetype, req.buffer, req.uploaded_by,
                           req.lecturer, req.source_document, req.keywords),
             res |-> NoUploadResponse]]
  /\ UNCHANGED <<variant, now, blobs, db, bf, starts, puts, reindexed, ask>>

\* the upload to the bucket resolves.  processFile throws its error; the
\* handler catches nothing, so its promise rejects: Express 4 leaves the
\* request unanswered, Express 5 hands the error to its error handler
UploadStorageReply(i, ok, express5) ==
  /\ variant = "server"
  /\ Running(i, "uploading")
  /\ LET pf == uploads[i].pf
     IN IF ok
        THEN /\ CanPut(pf.safeFilename)
             /\ blobs' = Put(blobs, pf.safeFilename, pf.buffer, pf.mimetype)
             /\ puts' = Written(pf.safeFilename)
             /\ uploads' = [uploads EXCEPT ![i].pf = PfUploaded(pf)]
        ELSE /\ uploads' = [uploads EXCEPT ![i] =
                  IF express5
                  THEN [state |-> "responded", pf |-> PfUploadFailed(pf),
                        res |-> UploadError(500, "Internal Server Error")]
                  ELSE [state |-> "hung", pf |-> PfUploadFailed(pf), res |-> NoUploadResponse]]
             /\ UNCHANGED <<blobs, puts>>
  /\ UNCHANGED <<variant, now, db, bf, starts, reindexed, ask>>

\* the parser resolves or throws
UploadExtractReply(i, parsed) ==
  /\ variant = "server"
  /\ Running(i, "extracting")
  /\ parsed \/ CanThrow(FileKind(uploads[i].pf.mimetype, uploads[i].pf.filename))
  /\ uploads' = [uploads EXCEPT ![i].pf = PfExtracted(uploads[i].pf, parsed)]
  /\ UNCHANGED <<variant, now, blobs, db, bf, starts, puts, reindexed, ask>>

\* the insert resolves with the row, resolves with an error or throws; the
\* handler answers
UploadInsertReply(i, outcome) ==
  /\ variant = "server"
  /\ Running(i, "inserting")
  /\ LET pf == uploads[i].pf
         row == Stored(pf.payload)
     IN IF outcome = "row"
        THEN /\ Len(db) < MaxRecords
             /\ db' = Append(db, row)
             /\ uploads' = [uploads EXCEPT ![i] =
                  [state |-> "responded", pf |-> PfInserted(pf, row), res |-> UploadOk(row)]]
        ELSE /\ db' = db
             /\ uploads' = [uploads EXCEPT ![i] =
                  [state |-> "responded", pf |-> PfInserted(pf, NoRow),
                   res |-> UploadError(500, "Processing failed")]]
  /\ UNCHANGED <<variant, now, blobs, bf, starts, puts, reindexed, ask>>

(***************************************************************************)
(* part_002 app.post('/upload'): every throw of processFile is caught and  *)
(* answered.                                                               *)
(***************************************************************************)
SimpleUploadReceive(i, req) ==
  /\ variant = "simple"
  /\ Free(i)
  /\ uploads' = [uploads EXCEPT ![i] =
       IF ~req.hasFile
       THEN [state |-> "responded", pf |-> PfNone, res |-> UploadError(400, "No file uploaded")]
       ELSE [state |-> "running",
             pf |-> SimplePfCall(req.originalname, req.mimetype, req.buffer,
                                 req.lecturer, req.keywords),
             res |-> NoUploadResponse]]
  /\ UNCHANGED <<variant, now, blobs, db, bf, starts, puts, reindexed, ask>>

SimpleStorageReply(i, ok) ==
  /\ variant = "simple"
  /\ Running(i, "uploading")
  /\ LET pf == uploads[i].pf
     IN IF ok
        THEN /\ CanPut(pf.safeFilename)
             /\ blobs' = Put(blobs, pf.safeFilename, pf.buffer, pf.mimetype)
             /\ puts' = Written(pf.safeFilename)
             /\ uploads' = [uploads EXCEPT ![i].pf = SimplePfUploaded(pf)]
        ELSE /\ uploads' = [uploads EXCEPT ![i] =
                  [state |-> "responded", pf |-> PfUploadFailed(pf),
                   res |-> UploadError(500, "storage error")]]
             /\ UNCHANGED <<blobs, puts>>
  /\ UNCHANGED <<variant, now, db, bf, starts, reindexed, ask>>

SimpleExtractReply(i, parsed) ==
  /\ variant = "simple"
  /\ Running(i, "extracting")
  /\ parsed \/ CanThrow(SimpleFileKind(uploads[i].pf.mimetype))
  /\ uploads' = [uploads EXCEPT ![i] =
       IF parsed
       THEN [@ EXCEPT !.pf = SimplePfExtracted(@)]
       ELSE [state |-> "responded", pf |-> PfUploadFailed(uploads[i].pf),
             res |-> UploadError(500, "parse error")]]
  /\ UNCHANGED <<variant, now, blobs, db, bf, starts, puts, reindexed, ask>>

SimpleInsertReply(i, ok) ==
  /\ variant = "simple"
  /\ Running(i, "inserting")
  /\ LET pf == uploads[i].pf
         row == Stored(pf.payload)
     IN IF ok
        THEN /\ Len(db) < MaxRecords
             /\ db' = Append(db, row)
             /\ uploads' = [uploads EXCEPT ![i] =
                  [state |-> "responded", pf |-> PfInserted(pf, row), res |-> UploadOk(NoRow)]]
        ELSE /\ db' = db
             /\ uploads' = [uploads EXCEPT ![i] =
                  [state |-> "responded", pf |-> PfUploadFailed(pf),
                   res |-> UploadError(500, "database error")]]
  /\ UNCHANGED <<variant, now, blobs, bf, starts, puts, reindexed, ask>>

(***************************************************************************)
(* server.js processExistingFiles.                                         *)
(***************************************************************************)
BfOff == [stage |-> "off", files |-> <<>>, i |-> 1, pf |-> PfNone]
BfStart == [stage |-> "listing", files |-> <<>>, i |-> 1, pf |-> PfNone]

\* for (const f of files) { if (!f.name) continue; ...: the loop from
\* index i on, up to the await of the next download, or to its end
BfLoop(files, i) ==
  LET named == {j \in i..Len(files) : files[j].name # <<>>}
  IN IF named = {}
     THEN [stage |-> "done", files |-> files, i |-> Len(files) + 1, pf |-> PfNone]
     ELSE [stage |-> "downloading", files |-> files,
           i |-> CHOOSE j \in named : \A k \in named : j <= k, pf |-> PfNone]

\* list('') resolves
BfListReply(ok) ==
  /\ bf.stage = "listing"
  /\ bf' = IF ok
           THEN BfLoop([k \in DOMAIN blobs |->
                          [name |-> blobs[k].name, content_type |-> blobs[k].content_type]], 1)
           ELSE [bf EXCEPT !.stage = "done"]
  /\ UNCHANGED <<variant, now, blobs, db, uploads, starts, puts, reindexed, ask>>

\* download(f.name) resolves: an error goes on with the next file; the
\* bytes go to processFile, up to the await of its upload
BfDownloadReply(ok) ==
  /\ bf.stage = "downloading"
  /\ LET f == bf.files[bf.i]
         obj == blobs[CHOOSE k \in DOMAIN blobs : blobs[k].name = f.name]
     IN bf' = IF ok
              THEN [bf EXCEPT !.stage = "processing",
                              !.pf = PfCall(f.name, f.content_type, obj.bytes,
                                            <<"s","y","s","t","e","m">>, <<>>, <<>>, <<>>)]
              ELSE BfLoop(bf.files, bf.i + 1)
  /\ UNCHANGED <<variant, now, blobs, db, uploads, starts, puts, reindexed, ask>>

\* the upload of processFile resolves; its throw leaves the loop by the
\* catch of processExistingFiles
BfStorageReply(ok) ==
  /\ bf.stage = "processing" /\ bf.pf.stage = "uploading"
  /\ IF ok
     THEN /\ CanPut(bf.pf.safeFilename)
          /\ blobs' = Put(blobs, bf.pf.safeFilename, bf.pf.buffer, bf.pf.mimetype)
          /\ puts' = Written(bf.pf.safeFilename)
          /\ bf' = [bf EXCEPT !.pf = PfUploaded(bf.pf)]
     ELSE /\ bf' = [bf EXCEPT !.stage = "done", !.pf = PfUploadFailed(bf.pf)]
          /\ UNCHANGED <<blobs, puts>>
  /\ UNCHANGED <<variant, now, db, uploads, starts, reindexed, ask>>

BfExtractReply(parsed) ==
  /\ bf.stage = "processing" /\ bf.pf.stage = "extracting"
  /\ parsed \/ CanThrow(FileKind(bf.pf.mimetype, bf.pf.filename))
  /\ bf' = [bf EXCEPT !.pf = PfExtracted(bf.pf, parsed)]
  /\ UNCHANGED <<variant, now, blobs, db, uploads, starts, puts, reindexed, ask>>

\* the insert of processFile resolves or throws; the loop goes on
BfInsertReply(outcome) ==
  /\ bf.stage = "processing" /\ bf.pf.stage = "inserting"
  /\ IF outcome = "row"
     THEN /\ Len(db) < MaxRecords
          /\ db' = Append(db, Stored(bf.pf.payload))
          /\ reindexed' = (reindexed \/ Indexed(bf.pf.filename))
     ELSE UNCHANGED <<db, reindexed>>
  /\ bf' = BfLoop(bf.files, bf.i + 1)
  /\ UNCHANGED <<variant, now, blobs, uploads, starts, puts>>
  /\ UNCHANGED ask

(***************************************************************************)
(* The clock and the process.                                              *)
(***************************************************************************)
Tick ==
  /\ now < MaxClock
  /\ now' = now + 1
  /\ UNCHANGED <<variant, blobs, db, uploads, bf, starts, puts, reindexed, ask>>

\* the server is started again: the requests in flight are gone, the
\* stores stay, processExistingFiles() runs
Restart ==
  /\ variant = "server"
  /\ starts < MaxStarts
  /\ starts' = starts + 1
  /\ uploads' = [i \in Slots |-> SlotIdle]
  /\ bf' = BfStart
  /\ UNCHANGED <<variant, now, blobs, db, puts, reindexed, ask>>

(***************************************************************************)
(* POST /ask (server.js).                                                  *)
(***************************************************************************)
\* a position of hay that holds a \w character
WordAt(hay, p) == p \in 1..Len(hay) /\ IsWordChar(hay[p])

\* \b holds between positions p-1 and p
Boundary(hay, p) == WordAt(hay, p - 1) # WordAt(hay, p)

\* the pattern \btok\b matches hay at position i
MatchAt(hay, tok, i) ==
  /\ i + Len(tok) - 1 <= Len(hay)
  /\ SubSeq(hay, i, i + Len(tok) - 1) = tok
  /\ Boundary(hay, i)
  /\ Boundary(hay, i + Len(tok))

\* hay.match(new RegExp(`\\b${tok}\\b`, 'g')): the global scan takes the
\* leftmost match at or after lastIndex and resumes after it; its length
\* (no match: null, which adds nothing)
RECURSIVE MatchCountFrom(_, _, _)
MatchCountFrom(hay, tok, pos) ==
  LET found == {i \in pos..Len(hay) : MatchAt(hay, tok, i)}
  IN IF found = {} THEN 0
     ELSE LET i == CHOOSE j \in found : \A k \in found : j <= k
          IN 1 + MatchCountFrom(hay, tok, i + Len(tok))

MatchCount(hay, tok) == MatchCountFrom(hay, tok, 1)

\* the haystack of a row
Hay(r) == toLowerCase(r.answer_text \o <<" ">> \o r.question_keywords \o <<" ">> \o r.source_document)

RECURSIVE ScoreFrom(_, _, _)
ScoreFrom(hay, qTokens, i) ==
  IF i > Len(qTokens) THEN 0
  ELSE MatchCount(hay, qTokens[i]) + ScoreFrom(hay, qTokens, i + 1)

\* the score the map callback gives row r
Score(r, qTokens) == ScoreFrom(Hay(r), qTokens, 1)

\* Array.prototype.sort((a, b) => b.score - a.score): a stable sort; an
\* element goes behind every element that does not compare after it
InsertByScore(sorted, e) ==
  LET before == {i \in DOMAIN sorted : sorted[i].score >= e.score}
      k == IF before = {} THEN 0 ELSE CHOOSE i \in before : \A j \in before : j <= i
  IN SubSeq(sorted, 1, k) \o <<e>> \o SubSeq(sorted, k + 1, Len(sorted))

RECURSIVE SortFrom(_, _, _)
SortFrom(xs, i, acc) ==
  IF i > Len(xs) THEN acc ELSE SortFrom(xs, i + 1, InsertByScore(acc, xs[i]))

SortByScoreDesc(xs) == SortFrom(xs, 1, <<>>)

\* data.map(...).filter(x => x.score > 0).sort(...)
Scored(data, qTokens) ==
  SortByScoreDesc(SelectSeq([i \in 1..Len(data) |-> [row |-> data[i], score |-> Score(data[i], qTokens)]],
                            LAMBDA e : e.score > 0))

\* A top_k of the request body: absent, a number (twice its value, so that
\* halves are values too) or a value that is no number ("abc", {}).
\* ToIntegerOrInfinity(top_k), which slice applies to its end argument:
ToInteger(top_k) ==
  IF top_k.kind = "num"
  THEN IF top_k.twice >= 0 THEN top_k.twice \div 2 ELSE -((-top_k.twice) \div 2)
  ELSE 0

\* the destructuring default top_k = 2
TopKOrDefault(top_k) == IF top_k.kind = "absent" THEN [kind |-> "num", twice |-> 4] ELSE top_k

\* scored.slice(0, top_k): a negative end counts from the end of the array
SliceTopK(scored, top_k) ==
  LET rel == ToInteger(top_k)
      final == IF rel < 0 THEN Max(Len(scored) + rel, 0) ELSE Min(rel, Len(scored))
  IN SubSeq(scored, 1, final)

MatchOf(e) ==
  [score |-> e.score,
   snippet |-> Take(e.row.answer_text, SNIPPET_MAX),
   lecturer |-> e.row.lecturer_name,
   source |-> e.row.source_document,
   file_url |-> e.row.file_url,
   id |-> e.row.id]

Best(data, qTokens, top_k) ==
  LET cut == SliceTopK(Scored(data, qTokens), top_k)
  IN [i \in 1..Len(cut) |-> MatchOf(cut[i])]

\* qTokens.forEach(tok => orParts.push(...)): three filters a token
RECURSIVE OrPartsFrom(_, _)
OrPartsFrom(qTokens, i) ==
  IF i > Len(qTokens) THEN <<>>
  ELSE LET safe == SelectSeq(qTokens[i], LAMBDA c : c # "%")
           pat == <<"%">> \o safe \o <<"%">>
       IN << [col |-> "question_keywords", op |-> "ilike", pat |-> pat],
             [col |-> "answer_text", op |-> "ilike", pat |-> pat],
             [col |-> "source_document", op |-> "ilike", pat |-> pat] >>
          \o OrPartsFrom(qTokens, i + 1)

OrQuery(qTokens) == OrPartsFrom(qTokens, 1)

NoResponse == [status |-> 0, error |-> "", matches |-> <<>>]
ErrorResponse(status, msg) == [status |-> status, error |-> msg, matches |-> <<>>]
MatchesResponse(ms) == [status |-> 200, error |-> "", matches |-> ms]

AskIdle ==
  [stage |-> "idle", question |-> [present |-> FALSE, text |-> <<>>],
   top_k |-> [kind |-> "absent", twice |-> 0],
   qTokens |-> <<>>, queried |-> FALSE, orQuery |-> <<>>, data |-> <<>>, res |-> NoResponse]

\* Request bodies of POST /ask.  A question is absent or a string.
Questions ==
  { [present |-> FALSE, text |-> <<>>],
    [present |-> TRUE, text |-> <<>>],
    [present |-> TRUE, text |-> <<"i","s"," ","t","h","e"," ","a"," ","o","f">>],
    [present |-> TRUE, text |-> <<"o","x","?"," ","-">>],
    [present |-> TRUE, text |-> <<"c","a","t">>],
    [present |-> TRUE, text |-> <<"T","h","e"," ","C","a","t",","," ","d","o","g","!">>] }

MaxTopK == 3

TopKs ==
  { [kind |-> "absent", twice |-> 0], [kind |-> "nonnum", twice |-> 0] }
  \cup { [kind |-> "num", twice |-> t] : t \in (-2 * MaxTopK)..(2 * MaxTopK) }

\* Rows of knowledge_base the Record Store may return
CandidateRows ==
  { Row(1, <<"c","a","t"," ","c","a","t">>, <<"c","a","t">>, <<>>),
    Row(2, <<"c","a","t","_","x"," ","c","a","t","s">>, <<"c","a","t","s">>, <<"d","o","g","m","a">>),
    Row(3, <<"D","o","g">>, <<"d","o","g">>, <<"c","a","t">>),
    Row(4, <<"C","A","T","-","d","o","g">>, <<>>, <<>>) }

\* the sequences of at most n distinct elements of S
RECURSIVE SeqsUpTo(_, _)
SeqsUpTo(S, n) ==
  IF n = 0 THEN {<<>>}
  ELSE LET shorter == SeqsUpTo(S, n - 1)
       IN shorter \cup UNION {{Append(q, e) : e \in S \ Range(q)} : q \in shorter}

\* What supabase.from('knowledge_base').select('*').or(...).limit(2000)
\* resolves to: {data, error}
StoreReplies ==
  { [kind |-> "error", data |-> <<>>], [kind |-> "nodata", data |-> <<>>] }
  \cup { [kind |-> "rows", data |-> d] : d \in SeqsUpTo(CandidateRows, MaxCandidates) }

\* if (!question)
QuestionMissing(q) == ~q.present \/ q.text = <<>>

\* if (qTokens.length === 0)
NoTokens(qTokens) == Len(qTokens) = 0

\* server.js app.post('/ask'), up to the await of the select
AskReceive(q, k) ==
  /\ ask.stage = "idle"
  /\ LET top_k == TopKOrDefault(k)
         qTokens == Take(simpleTokenize(q.text), TokenCapServer)
         req == [AskIdle EXCEPT !.question = q, !.top_k = top_k]
     IN IF QuestionMissing(q)
        THEN ask' = [req EXCEPT !.stage = "done", !.res = ErrorResponse(400, "Question required")]
        ELSE IF NoTokens(qTokens)
        THEN ask' = [req EXCEPT !.stage = "done", !.qTokens = qTokens, !.res = MatchesResponse(<<>>)]
        ELSE ask' = [req EXCEPT !.stage = "querying", !.qTokens = qTokens,
                                !.queried = TRUE, !.orQuery = OrQuery(qTokens)]
  /\ UNCHANGED ingestVars

\* server.js app.post('/ask'), from the select's reply on
AskReply(reply) ==
  /\ ask.stage = "querying"
  /\ ask' = [ask EXCEPT
       !.stage = "done",
       !.data = reply.data,
       !.res = IF reply.kind = "error" THEN ErrorResponse(500, "Search failed")
               ELSE IF reply.kind = "nodata" THEN ErrorResponse(500, "Server error")
               ELSE MatchesResponse(Best(reply.data, ask.qTokens, ask.top_k))]
  /\ UNCHANGED ingestVars

\* the response is out; the next request comes
AskClose ==
  /\ ask.stage = "done"
  /\ ask' = AskIdle
  /\ UNCHANGED ingestVars

(***************************************************************************)
(* The specifications: Spec is ingestion (uploads one at a time, the        *)
(* backfill, restarts) under either variant, SpecUploads is uploads in     *)
(* flight together, SpecAsk is POST /ask of server.js.  Ingestion and /ask *)
(* share no state: /ask reads the table only through the reply of its      *)
(* select.                                                                 *)
(***************************************************************************)
InsertOutcomes == {"row", "error", "throws"}

\* the first start: the bucket holds test.pdf (part_000 puts it there) and a
\* text file, the table is empty
Init ==
  /\ variant \in {"server", "simple"}
  /\ now = 0
  /\ blobs = << [name |-> <<"t","e","s","t",".","p","d","f">>, bytes |-> <<"g","n","u">>,
                 content_type |-> "application/pdf"],
               [name |-> <<"o","l","d",".","t","x","t">>, bytes |-> <<"y","a","k">>,
                 content_type |-> "text/plain"] >>
  /\ db = <<>>
  /\ uploads = [i \in Slots |-> SlotIdle]
  /\ bf = IF variant = "server" THEN BfStart ELSE BfOff
  /\ starts = 1
  /\ puts = [once |-> {}, again |-> {}]
  /\ reindexed = FALSE
  /\ ask = AskIdle

\* POST /upload through the slots S, the requests being those of R
UploadStep(S, R) ==
  \/ \E i \in S, req \in R : UploadReceive(i, req)
  \/ \E i \in S, ok \in BOOLEAN, express5 \in BOOLEAN : UploadStorageReply(i, ok, express5)
  \/ \E i \in S, parsed \in BOOLEAN : UploadExtractReply(i, parsed)
  \/ \E i \in S, outcome \in InsertOutcomes : UploadInsertReply(i, outcome)
  \/ \E i \in S, req \in R : SimpleUploadReceive(i, req)
  \/ \E i \in S, ok \in BOOLEAN : SimpleStorageReply(i, ok)
  \/ \E i \in S, parsed \in BOOLEAN : SimpleExtractReply(i, parsed)
  \/ \E i \in S, ok \in BOOLEAN : SimpleInsertReply(i, ok)

BackfillStep ==
  \/ \E ok \in BOOLEAN : BfListReply(ok)
  \/ \E ok \in BOOLEAN : BfDownloadReply(ok)
  \/ \E ok \in BOOLEAN : BfStorageReply(ok)
  \/ \E parsed \in BOOLEAN : BfExtractReply(parsed)
  \/ \E outcome \in InsertOutcomes : BfInsertReply(outcome)

\* Ingestion from the first start on: the backfill, restarts, and uploads
\* one at a time
Next ==
  \/ UploadStep({1}, {NoFileRequest, NotesRequest, PdfRequest})
  \/ BackfillStep
  \/ Tick
  \/ Restart

Spec == Init /\ [][Next]_vars

\* Concurrent uploads to a server whose backfill found an empty bucket
InitUploads ==
  /\ variant \in {"server", "simple"}
  /\ now = 0
  /\ blobs = <<>>
  /\ db = <<>>
  /\ uploads = [i \in Slots |-> SlotIdle]
  /\ bf = IF variant = "server" THEN BfLoop(<<>>, 1) ELSE BfOff
  /\ starts = 1
  /\ puts = [once |-> {}, again |-> {}]
  /\ reindexed = FALSE
  /\ ask = AskIdle

NextUploads ==
  \/ UploadStep(Slots, {NoFileRequest, NotesRequest, OtherNotesRequest})
  \/ Tick

SpecUploads == InitUploads /\ [][NextUploads]_vars

InitAsk == Init /\ variant = "server"

NextAsk ==
  \/ \E q \in Questions, k \in TopKs : AskReceive(q, k)
  \/ \E reply \in StoreReplies : AskReply(reply)
  \/ AskClose

SpecAsk == InitAsk /\ [][NextAsk]_vars

(***************************************************************************)
(* Claims about POST /ask, checked under SpecAsk.                          *)
(***************************************************************************)
\* the request was answered from rows the Record Store returned
AnsweredFromRows == ask.stage = "done" /\ ask.queried /\ ask.res.status = 200

\* word-boundary occurrences of tok in hay, counted position by position
Occurrences(hay, tok) == Cardinality({i \in 1..Len(hay) : MatchAt(hay, tok, i)})

RECURSIVE SumOccurrences(_, _, _)
SumOccurrences(hay, qTokens, i) ==
  IF i > Len(qTokens) THEN 0
  ELSE Occurrences(hay, qTokens[i]) + SumOccurrences(hay, qTokens, i + 1)

\* the score the claim gives candidate i of the reply
ClaimScore(i) == SumOccurrences(Hay(ask.data[i]), ask.qTokens, 1)

PositiveCandidates == {i \in 1..Len(ask.data) : ClaimScore(i) > 0}

\* the candidates of positive score, by score descending, equal scores in
\* retrieval order: the one arrangement p of them with that order
Ranking ==
  LET n == Cardinality(PositiveCandidates)
  IN CHOOSE p \in [1..n -> PositiveCandidates] :
       \A a, b \in 1..n :
         a < b => \/ ClaimScore(p[a]) > ClaimScore(p[b])
                  \/ ClaimScore(p[a]) = ClaimScore(p[b]) /\ p[a] < p[b]

\* the first k elements of the ranking, as matches (k an integer)
FirstOfRanking(k) ==
  [j \in 1..Min(Max(k, 0), Len(Ranking)) |->
     MatchOf([row |-> ask.data[Ranking[j]], score |-> ClaimScore(Ranking[j])])]

\* the largest integer at most twice / 2
FloorHalf(twice) == IF twice >= 0 THEN twice \div 2 ELSE -((1 - twice) \div 2)

\* C1 (as stated): for any candidate sequence, any non-empty query token
\* sequence and any numeric top_k, the matches of POST /ask are exactly the
\* first top_k elements of the positive-score candidates ordered by score
\* descending, ties in retrieval order.
C1_MatchesAreFirstTopKOfRanking ==
  (AnsweredFromRows /\ ask.top_k.kind = "num")
    => ask.res.matches = FirstOfRanking(FloorHalf(ask.top_k.twice))

\* The same statement for the top_k values slice does not count from the
\* end (top_k > -1); it holds, and shows that C1 fails on negative top_k only.
RankingForNonNegativeTopK ==
  (AnsweredFromRows /\ ask.top_k.kind = "num" /\ ask.top_k.twice > -2)
    => ask.res.matches = FirstOfRanking(FloorHalf(ask.top_k.twice))

\* C2 (as stated): for every caller-supplied top_k, zero, negative and
\* non-integer values included, the number of matches is at most the
\* requested top_k (a negative request counted as zero, a length being at
\* least zero) and at most the number of candidates with a positive score.
C2_TopKBound ==
  AnsweredFromRows
    => /\ ask.top_k.kind = "num" => 2 * Len(ask.res.matches) <= Max(ask.top_k.twice, 0)
       /\ Len(ask.res.matches) <= Cardinality(PositiveCandidates)

\* C5 (as stated): a request whose question tokenizes to an empty token
\* sequence, the empty question included, is answered {matches: []}, never
\* with an error, and no Record Store query is issued.
C5_EmptyTokensSucceed ==
  (ask.stage # "idle" /\ ask.question.present /\ simpleTokenize(ask.question.text) = <<>>)
    => ask.stage = "done" /\ ask.res = MatchesResponse(<<>>) /\ ~ask.queried

\* The same statement for the questions that are non-empty strings; it
\* holds, and shows that C5 fails on the empty question only.
NonEmptyQuestionWithoutTokensSucceeds ==
  (ask.stage # "idle" /\ ~QuestionMissing(ask.question)
     /\ simpleTokenize(ask.question.text) = <<>>)
    => ask.stage = "done" /\ ask.res = MatchesResponse(<<>>) /\ ~ask.queried

(***************************************************************************)
(* Claims about ingestion.                                                 *)
(***************************************************************************)
\* s.split(',')
RECURSIVE SplitCommaFrom(_, _, _, _)
SplitCommaFrom(s, i, cur, acc) ==
  IF i > Len(s) THEN Append(acc, cur)
  ELSE IF s[i] = "," THEN SplitCommaFrom(s, i + 1, <<>>, Append(acc, cur))
  ELSE SplitCommaFrom(s, i + 1, Append(cur, s[i]), acc)

\* question_keywords read as a comma-separated token sequence; the empty
\* string is the empty sequence
ParseKeywords(s) == IF s = <<>> THEN <<>> ELSE SplitCommaFrom(s, 1, <<>>, <<>>)

\* the stop words and the cap of the variant that runs
StopwordsOfVariant == IF variant = "server" THEN STOPWORDS ELSE SIMPLE_STOPWORDS
CapOfVariant == IF variant = "server" THEN TokenCapServer ELSE TokenCapSimple

\* every processFile call in flight
Calls == {uploads[i].pf : i \in Slots} \cup {bf.pf}

\* C3: after any sequence of ingestions, every stored record's
\* question_keywords, read as a comma-separated token sequence, has no
\* duplicate token, no token of length <= 2, no stop word of its variant,
\* and at most the tokenizer cap of its variant of tokens.
C3_KeywordsWellFormed ==
  \A k \in DOMAIN db :
    LET toks == ParseKeywords(db[k].question_keywords)
    IN /\ \A i, j \in DOMAIN toks : toks[i] = toks[j] => i = j
       /\ \A i \in DOMAIN toks : Len(toks[i]) > 2
       /\ \A i \in DOMAIN toks : toks[i] \notin StopwordsOfVariant
       /\ Len(toks) <= CapOfVariant

\* the record of "my notes.txt" is stored: its text repeats a word, holds a
\* stop word and has more words than the cap, and the cap is reached
C3_Witness ==
  \E k \in DOMAIN db :
    /\ db[k].answer_text = Take(NotesRequest.buffer, TextCap)
    /\ Len(ParseKeywords(db[k].question_keywords)) = CapOfVariant

\* C4: after any sequence of ingestions, every stored record's answer_text
\* has length at most the cap (20000 in the source), whatever the length of
\* the extracted text.
C4_TextTruncated == \A k \in DOMAIN db : Len(db[k].answer_text) <= TextCap

\* a record is stored whose extracted text was longer than the cap
C4_Witness ==
  /\ Len(NotesRequest.buffer) > TextCap
  /\ \E k \in DOMAIN db :
       /\ Len(db[k].answer_text) = TextCap
       /\ db[k].answer_text = SubSeq(NotesRequest.buffer, 1, TextCap)

\* C6 (as stated): when the upload to the bucket fails during POST /upload
\* of server.js, no record is inserted for the file and the request is
\* answered with one error response carrying an error message.
C6_UploadFailureAnswered ==
  \A i \in Slots :
    (variant = "server" /\ uploads[i].pf.stage = "threw")
      => /\ uploads[i].state = "responded"
         /\ uploads[i].res.status >= 400
         /\ uploads[i].res.error # ""

\* C7 (as stated): a failure on one listed file never stops the backfill:
\* when processExistingFiles is over, no listed file lies after the last
\* one its loop reached.
C7_BatchReachesEveryFile == bf.stage = "done" => bf.i >= Len(bf.files)

\* C8 (as stated): the backfill inserts no record for a blob that already
\* has one.
C8_NoSecondRecord == ~reindexed

\* C9: in server.js, when the extractor throws, processFile goes on to the
\* insert with an empty text and with the keywords of the filename, the
\* source_document and the user keywords.
C9_ExtractionFailureGoesOn ==
  \A pf \in Calls :
    (variant = "server" /\ pf.extractFailed)
      => /\ pf.stage = "inserting"
         /\ pf.payload.answer_text = <<>>
         /\ pf.payload.question_keywords =
              Join(simpleTokenize(<<" ">> \o pf.filename \o <<" ">> \o pf.source_document
                                  \o <<" ">> \o pf.customKeywords), <<",">>)

\* the parser threw on a.pdf, which came with a source_document and
\* keywords, and the insert is awaited
C9_Witness ==
  /\ variant = "server"
  /\ uploads[1].pf.extractFailed
  /\ uploads[1].pf.stage = "inserting"
  /\ uploads[1].pf.filename = PdfRequest.originalname
  /\ uploads[1].pf.payload.question_keywords # <<>>

\* C10 (as stated): no two ingestions write the same key of the bucket.
C10_NoKeyWrittenTwice == puts.again = {}

====
